---- MODULE Spec2Model ----
(***************************************************************************)
(* Deployment lifecycle orchestrator of the BYOC platform API.             *)
(*                                                                         *)
(* The program is a FastAPI application served by one uvicorn event loop   *)
(* (src/api/main.py:228-231).  Every handler is an `async def`; the code   *)
(* between two `await`s runs without interleaving, so each action below is *)
(* one such stretch of code.  The job record store is the SQLite table     *)
(* customer_deployments (src/api/database.py); the remote engine is only   *)
(* reachable through PulumiDeploymentsClient, and each of its calls is an  *)
(* `await` at which other handlers and tasks may run.                      *)
(***************************************************************************)
EXTENDS Integers, Sequences, FiniteSets, TLC

(***************************************************************************)
(* Bounds of the model.                                                    *)
(***************************************************************************)
\* number of onboard requests that may arrive
MaxSubmits == 2
\* number of status requests that may be in flight at the same time
MaxPolls == 2
\* number of writes a caller of the store on its own makes
MaxCalls == 3
\* number of onboard requests, and of status requests in flight, in the
\* service with the destroy operation
MaxClients == 1

(***************************************************************************)
(* Data.  Names are sequences of tokens so that the f-string               *)
(* f"{customer_name}-{environment}" is a real concatenation.               *)
(***************************************************************************)
None == "None"
DASH == "-"

\* the (customer_name, environment) pairs requests are drawn from: "acme-co"
\* with "dev" and "acme" with "co-dev"; both components match ^[a-z0-9-]+$
\* and customer_name has at least 3 characters
Pairs ==
    { << <<"acme", DASH, "co">>, <<"dev">> >>,
      << <<"acme">>, <<"co", DASH, "dev">> >> }

\* the aws_region of the r-th request: requests for one key come with equal
\* and with different regions
Regions == <<"us-east-1", "eu-west-1">>
region_of(r) == Regions[((r - 1) % Len(Regions)) + 1]
RoleArn == "arn:aws:iam::123456789012:role/byoc"

\* DeploymentStatus
PENDING == "pending"
IN_PROGRESS == "in_progress"
SUCCEEDED == "succeeded"
FAILED == "failed"
DESTROYING == "destroying"
DESTROYED == "destroyed"
DeploymentStatus == {PENDING, IN_PROGRESS, SUCCEEDED, FAILED, DESTROYING, DESTROYED}
Terminal == {SUCCEEDED, FAILED, DESTROYED}

\* Python truthiness of an Optional[str]
Truthy(s) == s # None /\ s # ""

\* texts str(e) of the exceptions a remote call can raise; httpx timeouts
\* carry an empty text
ExcTexts == {"", "503 Service Unavailable"}

\* the "message" entry of a poll response: missing, empty or a text
Absent == "<absent>"
Messages == {Absent, "", "update failed"}

\* stack outputs the engine can export, as sets of <<name, value>>
EmptyOutputs == {}
VpcOutputs == {<<"vpc_id", "vpc-1">>}
OutputMaps == {EmptyOutputs, VpcOutputs}

\* json.dumps of a stack-output mapping
JsonDumps(m) ==
    IF m = EmptyOutputs THEN "{}"
    ELSE IF m = VpcOutputs THEN "{\"vpc_id\": \"vpc-1\"}"
    ELSE "null"

\* json.loads of a stored outputs text
JsonLoads(s) ==
    IF s = "{}" THEN EmptyOutputs
    ELSE IF s = "{\"vpc_id\": \"vpc-1\"}" THEN VpcOutputs
    ELSE {<<"?", s>>}

\* identifiers the engine hands out for the deployments of one stack
DeploymentIds == <<"dep-1", "dep-2", "dep-3">>

(***************************************************************************)
(* Job record store (src/api/database.py).                                 *)
(***************************************************************************)
stack_name_of(customer_name, environment) == customer_name \o <<DASH>> \o environment

StackNames == { stack_name_of(p[1], p[2]) : p \in Pairs }

\* "no record": the None a query returns
NoRecord == [id |-> 0]

\* session.query(CustomerDeploymentRecord).filter_by(stack_name=...).first()
first(t, stack_name) ==
    IF \E i \in 1..Len(t) : t[i].stack_name = stack_name
    THEN t[CHOOSE i \in 1..Len(t) :
               /\ t[i].stack_name = stack_name
               /\ \A j \in 1..(i-1) : t[j].stack_name # stack_name]
    ELSE NoRecord

\* index of the row first() returns, 0 when there is none
first_index(t, stack_name) ==
    IF \E i \in 1..Len(t) : t[i].stack_name = stack_name
    THEN CHOOSE i \in 1..Len(t) :
               /\ t[i].stack_name = stack_name
               /\ \A j \in 1..(i-1) : t[j].stack_name # stack_name
    ELSE 0

\* CustomerDeploymentRecord(...) with the column defaults
CustomerDeploymentRecord(t, clock, customer_name, environment, aws_region, role_arn) ==
    [ id |-> Len(t) + 1,
      customer_name |-> customer_name,
      environment |-> environment,
      stack_name |-> stack_name_of(customer_name, environment),
      aws_region |-> aws_region,
      role_arn |-> role_arn,
      status |-> PENDING,
      pulumi_deployment_id |-> None,
      outputs |-> None,
      error_message |-> None,
      created_at |-> clock,
      updated_at |-> clock ]

\* session.add + session.commit under the unique index on stack_name
insert(t, record) ==
    IF \E i \in 1..Len(t) : t[i].stack_name = record.stack_name
    THEN [raised |-> "IntegrityError", table |-> t]
    ELSE [raised |-> None, table |-> Append(t, record)]

\* a create that returns the existing row instead of raising
create_deployment_reuse(t, clock, customer_name, environment, aws_region, role_arn) ==
    IF first(t, stack_name_of(customer_name, environment)) # NoRecord
    THEN [raised |-> None, table |-> t]
    ELSE insert(t, CustomerDeploymentRecord(t, clock, customer_name, environment,
                                            aws_region, role_arn))

\* a create without its existence check
create_deployment_nocheck(t, clock, customer_name, environment, aws_region, role_arn) ==
    insert(t, CustomerDeploymentRecord(t, clock, customer_name, environment,
                                       aws_region, role_arn))

\* a create that commits nothing
create_deployment_nocommit(t, clock, customer_name, environment, aws_region, role_arn) ==
    IF first(t, stack_name_of(customer_name, environment)) # NoRecord
    THEN [raised |-> "ValueError", table |-> t]
    ELSE [raised |-> None, table |-> t]

\* a create that replaces the row of an existing key
create_deployment_overwrite(t, clock, customer_name, environment, aws_region, role_arn) ==
    IF first(t, stack_name_of(customer_name, environment)) # NoRecord
    THEN [raised |-> None,
          table |-> [t EXCEPT ![first_index(t, stack_name_of(customer_name, environment))] =
                        [CustomerDeploymentRecord(t, clock, customer_name, environment,
                                                  aws_region, role_arn)
                            EXCEPT !.id = @ - 1]]]
    ELSE insert(t, CustomerDeploymentRecord(t, clock, customer_name, environment,
                                            aws_region, role_arn))

\* Database.create_deployment
create_deployment(t, clock, customer_name, environment, aws_region, role_arn) ==
    IF first(t, stack_name_of(customer_name, environment)) # NoRecord
    THEN [raised |-> "ValueError", table |-> t]
    ELSE insert(t, CustomerDeploymentRecord(t, clock, customer_name, environment,
                                            aws_region, role_arn))

\* Database.get_deployment
get_deployment(t, customer_name, environment) ==
    first(t, stack_name_of(customer_name, environment))

\* an update that assigns the three optional columns unconditionally
update_deployment_status_assign_all(t, clock, stack_name, status, pulumi_deployment_id, outputs, error_message) ==
    LET i == first_index(t, stack_name) IN
    IF i = 0 THEN t
    ELSE [t EXCEPT ![i] =
            [@ EXCEPT !.status = status,
                      !.updated_at = clock,
                      !.pulumi_deployment_id = pulumi_deployment_id,
                      !.outputs = outputs,
                      !.error_message = error_message]]

\* an update that inserts the row it does not find
update_deployment_status_upsert(t, clock, stack_name, status, pulumi_deployment_id, outputs, error_message) ==
    LET i == first_index(t, stack_name) IN
    IF i = 0
    THEN Append(t, [id |-> Len(t) + 1, customer_name |-> <<>>, environment |-> <<>>,
                    stack_name |-> stack_name, aws_region |-> Regions[1],
                    role_arn |-> RoleArn, status |-> status,
                    pulumi_deployment_id |-> None, outputs |-> None,
                    error_message |-> None, created_at |-> clock, updated_at |-> clock])
    ELSE [t EXCEPT ![i] =
            [@ EXCEPT !.status = status,
                      !.updated_at = clock,
                      !.pulumi_deployment_id =
                          IF Truthy(pulumi_deployment_id) THEN pulumi_deployment_id ELSE @,
                      !.outputs = IF Truthy(outputs) THEN outputs ELSE @,
                      !.error_message =
                          IF Truthy(error_message) THEN error_message ELSE @]]

\* an update that purges the row of a failed job
update_deployment_status_purge(t, clock, stack_name, status, pulumi_deployment_id, outputs, error_message) ==
    IF status = FAILED
    THEN SelectSeq(t, LAMBDA row : row.stack_name # stack_name)
    ELSE LET i == first_index(t, stack_name) IN
         IF i = 0 THEN t
         ELSE [t EXCEPT ![i] =
                 [@ EXCEPT !.status = status,
                           !.updated_at = clock,
                           !.pulumi_deployment_id =
                               IF Truthy(pulumi_deployment_id) THEN pulumi_deployment_id ELSE @,
                           !.outputs = IF Truthy(outputs) THEN outputs ELSE @]]

\* an update cut short after its first assignment
update_deployment_status_torn(t, clock, stack_name, status, pulumi_deployment_id, outputs, error_message) ==
    LET i == first_index(t, stack_name) IN
    IF i = 0 THEN t
    ELSE [t EXCEPT ![i] = [@ EXCEPT !.status = status]]

\* Database.update_deployment_status: the table after the call
update_deployment_status(t, clock, stack_name, status, pulumi_deployment_id, outputs, error_message) ==
    LET i == first_index(t, stack_name) IN
    IF i = 0 THEN t
    ELSE [t EXCEPT ![i] =
            [@ EXCEPT !.status = status,
                      !.updated_at = clock,
                      !.pulumi_deployment_id =
                          IF Truthy(pulumi_deployment_id) THEN pulumi_deployment_id ELSE @,
                      !.outputs = IF Truthy(outputs) THEN outputs ELSE @,
                      !.error_message =
                          IF Truthy(error_message) THEN error_message ELSE @]]

(***************************************************************************)
(* State.                                                                  *)
(***************************************************************************)
VARIABLES
    table,     \* rows of customer_deployments, in insertion order
    now,       \* datetime.utcnow(), advanced by every write
    submits,   \* the onboard requests: arrived, handled, and their responses
    tasks,     \* the background tasks added by onboard_customer
    polls,     \* the status requests in flight (awaiting a remote call)
    answer,    \* the status response sent by the step just taken, if any
    remote,    \* the engine: per stack, its outputs and its deployments
    files      \* the configuration directory: path of a file -> its text

vars == <<table, now, submits, tasks, polls, answer, remote, files>>

NoResponse == [status_code |-> 0]
NewSubmit ==
    [pc |-> "new", customer_name |-> <<>>, environment |-> <<>>,
     aws_region |-> None, raced |-> FALSE, existing |-> None,
     response |-> NoResponse]
IdlePoll ==
    [pc |-> "idle", customer_name |-> <<>>, environment |-> <<>>,
     deployment |-> NoRecord]
NoAnswer ==
    [customer_name |-> <<>>, environment |-> <<>>, remote_calls |-> 0,
     wrote |-> FALSE, stale |-> FALSE, response |-> NoResponse]
NoStack == [outputs |-> EmptyOutputs, deployments |-> <<>>]

Init ==
    /\ table = <<>>
    /\ now = 0
    /\ submits = [r \in 1..MaxSubmits |-> NewSubmit]
    /\ tasks = <<>>
    /\ polls = [s \in 1..MaxPolls |-> IdlePoll]
    /\ answer = NoAnswer
    /\ remote = [sn \in StackNames |-> NoStack]
    /\ files = <<>>

(***************************************************************************)
(* POST /api/v1/customers/onboard  (src/api/main.py:102-149).              *)
(***************************************************************************)
\* an onboard_customer that lacks the SUCCEEDED check
onboard_customer_no_succeeded_check(t, clock, customer_name, environment, aws_region, role_arn) ==
    LET existing == get_deployment(t, customer_name, environment)
        created == create_deployment(t, clock, customer_name, environment,
                                     aws_region, role_arn)
        seen == IF existing = NoRecord THEN None ELSE existing.status
    IN  IF existing # NoRecord /\ existing.status = IN_PROGRESS
        THEN [status_code |-> 409, detail |-> "is already in progress",
              status |-> None, table |-> t, add_task |-> FALSE, existing |-> seen]
        ELSE IF created.raised = "ValueError"
        THEN [status_code |-> 409, detail |-> "already exists",
              status |-> None, table |-> t, add_task |-> FALSE, existing |-> seen]
        ELSE IF created.raised # None
        THEN [status_code |-> 500, detail |-> created.raised,
              status |-> None, table |-> t, add_task |-> FALSE, existing |-> seen]
        ELSE [status_code |-> 200, detail |-> None,
              status |-> PENDING, table |-> created.table, add_task |-> TRUE,
              existing |-> seen]

\* the handler: the response, the table after it, whether run_deployment was
\* added to the background tasks, and the status of the row it read
onboard_customer(t, clock, customer_name, environment, aws_region, role_arn) ==
    LET existing == get_deployment(t, customer_name, environment)
        created == create_deployment(t, clock, customer_name, environment,
                                     aws_region, role_arn)
        seen == IF existing = NoRecord THEN None ELSE existing.status
    IN  IF existing # NoRecord /\ existing.status = IN_PROGRESS
        THEN [status_code |-> 409, detail |-> "is already in progress",
              status |-> None, table |-> t, add_task |-> FALSE, existing |-> seen]
        ELSE IF existing # NoRecord /\ existing.status = SUCCEEDED
        THEN [status_code |-> 409, detail |-> "already exists. Use update endpoint to modify.",
              status |-> None, table |-> t, add_task |-> FALSE, existing |-> seen]
        ELSE IF created.raised = "ValueError"
        THEN [status_code |-> 409, detail |-> "already exists",
              status |-> None, table |-> t, add_task |-> FALSE, existing |-> seen]
        ELSE IF created.raised # None
        THEN [status_code |-> 500, detail |-> created.raised,
              status |-> None, table |-> t, add_task |-> FALSE, existing |-> seen]
        ELSE [status_code |-> 200, detail |-> None,
              status |-> PENDING, table |-> created.table, add_task |-> TRUE,
              existing |-> seen]

\* a request reaches the server; requests in flight are handled in any order
\* (raced records that the key had no row when the request arrived)
SubmitArrive(r, p) ==
    /\ submits[r].pc = "new"
    /\ \A q \in 1..(r-1) : submits[q].pc # "new"
    /\ submits' = [submits EXCEPT ![r] =
                      [@ EXCEPT !.pc = "arrived", !.customer_name = p[1],
                                !.environment = p[2], !.aws_region = region_of(r),
                                !.raced = (get_deployment(table, p[1], p[2]) = NoRecord)]]
    /\ answer' = NoAnswer
    /\ UNCHANGED <<table, now, tasks, polls, remote>>
    /\ UNCHANGED files

\* the event loop runs the handler; it has no await, so it runs as one step
Submit(r) ==
    /\ submits[r].pc = "arrived"
    /\ LET res == onboard_customer(table, now + 1, submits[r].customer_name,
                                   submits[r].environment, submits[r].aws_region,
                                   RoleArn)
       IN  /\ table' = res.table
           /\ now' = IF res.table # table THEN now + 1 ELSE now
           /\ tasks' = IF res.add_task
                         THEN Append(tasks, [pc |-> "scheduled",
                                             customer_name |-> submits[r].customer_name,
                                             environment |-> submits[r].environment,
                                             submit |-> r,
                                             create_stack_raised |-> FALSE])
                         ELSE tasks
           /\ submits' = [submits EXCEPT ![r] =
                             [@ EXCEPT !.pc = "done",
                                       !.existing = res.existing,
                                       !.response = [status_code |-> res.status_code,
                                                     detail |-> res.detail,
                                                     status |-> res.status]]]
    /\ answer' = NoAnswer
    /\ UNCHANGED <<polls, remote>>
    /\ UNCHANGED files

(***************************************************************************)
(* run_deployment, the background task  (src/api/main.py:36-92).           *)
(***************************************************************************)
task_stack_name(i) == stack_name_of(tasks[i].customer_name, tasks[i].environment)

\* the except branch of run_deployment
run_deployment_failed(i, text) ==
    /\ table' = update_deployment_status(table, now + 1, task_stack_name(i),
                                         FAILED, None, None, text)
    /\ now' = now + 1
    /\ tasks' = [tasks EXCEPT ![i].pc = "finished",
                              ![i].create_stack_raised = FALSE]

\* a task that sends create_stack without writing IN_PROGRESS first
RunStart_without_update(i) ==
    /\ tasks[i].pc = "scheduled"
    /\ tasks' = [tasks EXCEPT ![i].pc = "create_stack"]
    /\ answer' = NoAnswer
    /\ UNCHANGED <<table, now, submits, polls, remote>>
    /\ UNCHANGED files

\* up to the first await: IN_PROGRESS is written, create_stack is sent
RunStart(i) ==
    /\ tasks[i].pc = "scheduled"
    /\ table' = update_deployment_status(table, now + 1, task_stack_name(i),
                                         IN_PROGRESS, None, None, None)
    /\ now' = now + 1
    /\ tasks' = [tasks EXCEPT ![i].pc = "create_stack"]
    /\ answer' = NoAnswer
    /\ UNCHANGED <<submits, polls, remote>>
    /\ UNCHANGED files

\* a task without the inner try: a create_stack that raises fails the job
RunCreateStackReturns_fails(i, raises) ==
    /\ tasks[i].pc = "create_stack"
    /\ IF raises
       THEN run_deployment_failed(i, "409 Conflict")
       ELSE /\ tasks' = [tasks EXCEPT ![i].pc = "configure"]
            /\ UNCHANGED <<table, now>>
    /\ answer' = NoAnswer
    /\ UNCHANGED <<submits, polls, remote>>
    /\ UNCHANGED files

\* create_stack returns or raises (stack exists, engine unreachable); the
\* inner except swallows either, and configure_deployment_settings is sent.
\* create_stack_raised tells, while that call is in flight, which it was.
RunCreateStackReturns(i, raises) ==
    /\ tasks[i].pc = "create_stack"
    /\ tasks' = [tasks EXCEPT ![i].pc = "configure",
                              ![i].create_stack_raised = raises]
    /\ answer' = NoAnswer
    /\ UNCHANGED <<table, now, submits, polls, remote>>
    /\ UNCHANGED files

\* configure_deployment_settings returns; trigger_deployment is sent
RunConfigureReturns(i) ==
    /\ tasks[i].pc = "configure"
    /\ tasks' = [tasks EXCEPT ![i].pc = "trigger",
                              ![i].create_stack_raised = FALSE]
    /\ answer' = NoAnswer
    /\ UNCHANGED <<table, now, submits, polls, remote>>
    /\ UNCHANGED files

\* a task that records the failure of configure_deployment_settings and
\* triggers all the same
RunConfigureRaises_goes_on(i, text) ==
    /\ tasks[i].pc = "configure"
    /\ table' = update_deployment_status(table, now + 1, task_stack_name(i),
                                         FAILED, None, None, text)
    /\ now' = now + 1
    /\ tasks' = [tasks EXCEPT ![i].pc = "trigger", ![i].create_stack_raised = FALSE]
    /\ answer' = NoAnswer
    /\ UNCHANGED <<submits, polls, remote>>
    /\ UNCHANGED files

\* configure_deployment_settings raises
RunConfigureRaises(i, text) ==
    /\ tasks[i].pc = "configure"
    /\ run_deployment_failed(i, text)
    /\ answer' = NoAnswer
    /\ UNCHANGED <<submits, polls, remote>>
    /\ UNCHANGED files

\* trigger_deployment returns: the engine has started a deployment; the
\* response carries its id, or no "id" entry (has_id = FALSE)
RunTriggerReturns(i, has_id) ==
    /\ tasks[i].pc = "trigger"
    /\ Len(remote[task_stack_name(i)].deployments) < Len(DeploymentIds)
    /\ LET sn == task_stack_name(i)
           n == Len(remote[sn].deployments) + 1
           deployment_id == IF has_id THEN DeploymentIds[n] ELSE ""
       IN  /\ remote' = [remote EXCEPT ![sn].deployments =
                            Append(@, [status |-> "running", message |-> Absent,
                                       outputs |-> EmptyOutputs,
                                       operation |-> "update"])]
           /\ table' = update_deployment_status(table, now + 1, sn, IN_PROGRESS,
                                                deployment_id, None, None)
           /\ now' = now + 1
           /\ tasks' = [tasks EXCEPT ![i].pc = "finished"]
    /\ answer' = NoAnswer
    /\ UNCHANGED <<submits, polls>>
    /\ UNCHANGED files

\* trigger_deployment raises
RunTriggerRaises(i, text) ==
    /\ tasks[i].pc = "trigger"
    /\ run_deployment_failed(i, text)
    /\ answer' = NoAnswer
    /\ UNCHANGED <<submits, polls, remote>>
    /\ UNCHANGED files

(***************************************************************************)
(* The engine finishes a deployment on its own.                            *)
(***************************************************************************)
RemoteSucceeds(sn, n, outputs) ==
    /\ n \in 1..Len(remote[sn].deployments)
    /\ remote[sn].deployments[n].status = "running"
    /\ remote[sn].deployments[n].operation = "update"
    /\ remote' = [remote EXCEPT ![sn].deployments[n].status = "succeeded",
                                ![sn].deployments[n].outputs = outputs,
                                ![sn].outputs = outputs]
    /\ answer' = NoAnswer
    /\ UNCHANGED <<table, now, submits, tasks, polls>>
    /\ UNCHANGED files

\* an engine that can still fail a deployment it has reported as succeeded
RemoteFails_any_time(sn, n, message) ==
    /\ n \in 1..Len(remote[sn].deployments)
    /\ remote[sn].deployments[n].status # "failed"
    /\ remote' = [remote EXCEPT ![sn].deployments[n].status = "failed",
                                ![sn].deployments[n].message = message]
    /\ answer' = NoAnswer
    /\ UNCHANGED <<table, now, submits, tasks, polls>>
    /\ UNCHANGED files

RemoteFails(sn, n, message) ==
    /\ n \in 1..Len(remote[sn].deployments)
    /\ remote[sn].deployments[n].status = "running"
    /\ remote' = [remote EXCEPT ![sn].deployments[n].status = "failed",
                                ![sn].deployments[n].message = message]
    /\ answer' = NoAnswer
    /\ UNCHANGED <<table, now, submits, tasks, polls>>
    /\ UNCHANGED files

(***************************************************************************)
(* GET /api/v1/customers/{customer_name}/{environment}/status              *)
(* (src/api/main.py:152-225).                                              *)
(***************************************************************************)
\* the CustomerDeployment the handler returns for a record
CustomerDeployment(deployment) ==
    [ status_code |-> 200,
      id |-> deployment.id,
      customer_name |-> deployment.customer_name,
      environment |-> deployment.environment,
      stack_name |-> deployment.stack_name,
      aws_region |-> deployment.aws_region,
      role_arn |-> deployment.role_arn,
      status |-> deployment.status,
      pulumi_deployment_id |-> deployment.pulumi_deployment_id,
      outputs |-> IF Truthy(deployment.outputs)
                    THEN JsonLoads(deployment.outputs) ELSE {<<None, None>>},
      has_outputs |-> Truthy(deployment.outputs),
      error_message |-> deployment.error_message,
      created_at |-> deployment.created_at,
      updated_at |-> deployment.updated_at ]

\* a handler that answers an unknown pair with an empty 200
NotFound_as_ok == [status_code |-> 200]

NotFound == [status_code |-> 404]

\* a guard that polls whatever the stored status is
must_poll_any_status(deployment) ==
    Truthy(deployment.pulumi_deployment_id)

\* the guard of the reconciliation, line 176
must_poll(deployment) ==
    deployment.status = IN_PROGRESS /\ Truthy(deployment.pulumi_deployment_id)

\* the write of the "succeeded" branch with the outputs left out
reconcile_succeeded_no_outputs(t, clock, stack_name, outputs) ==
    update_deployment_status(t, clock, stack_name, SUCCEEDED, None, None, None)

\* the write of the "succeeded" branch, lines 192-196
reconcile_succeeded(t, clock, stack_name, outputs) ==
    update_deployment_status(t, clock, stack_name, SUCCEEDED, None,
                             JsonDumps(outputs), None)

\* the write of the "failed" branch storing the outputs text as well
reconcile_failed_with_outputs(t, clock, stack_name, message) ==
    update_deployment_status(t, clock, stack_name, FAILED, None, "{}",
                             IF message = Absent THEN "Deployment failed" ELSE message)

\* the write of the "failed" branch, lines 201-205
reconcile_failed(t, clock, stack_name, message) ==
    update_deployment_status(t, clock, stack_name, FAILED, None, None,
                             IF message = Absent THEN "Deployment failed" ELSE message)

\* a reconciliation that refreshes the row while the engine is still running
reconcile_running_touch(t, clock, stack_name) ==
    update_deployment_status(t, clock, stack_name, IN_PROGRESS, None, None, None)

\* any other polled status: neither branch of lines 187-208 is taken
reconcile_running(t, clock, stack_name) == t

\* an except branch that records the failure, as run_deployment does
reconcile_raised_marks_failed(t, clock, stack_name, text) ==
    update_deployment_status(t, clock, stack_name, FAILED, None, None, text)

\* except Exception: pass, lines 209-210
reconcile_raised(t, clock, stack_name, text) == t

\* the deployment of the engine a stored id names, 0 when it names none
remote_index(deployment_id) ==
    IF \E n \in 1..Len(DeploymentIds) : DeploymentIds[n] = deployment_id
    THEN CHOOSE n \in 1..Len(DeploymentIds) : DeploymentIds[n] = deployment_id
    ELSE 0

\* the response a status request sends: for which pair, after how many
\* remote calls, whether it wrote the table and whether the row it wrote to
\* no longer had the status it had read
Answer(s, remote_calls, wrote, response) ==
    [customer_name |-> polls[s].customer_name,
     environment |-> polls[s].environment,
     remote_calls |-> remote_calls,
     wrote |-> wrote,
     stale |-> wrote /\ first(table, polls[s].deployment.stack_name).status
                          # polls[s].deployment.status,
     response |-> response]

\* a handler that answers from the store and never polls
StatusRead_from_store(s, p) ==
    /\ polls[s].pc = "idle"
    /\ \A q \in 1..(s-1) : polls[q].pc # "idle"
    /\ LET deployment == get_deployment(table, p[1], p[2]) IN
       /\ answer' = [customer_name |-> p[1], environment |-> p[2],
                     remote_calls |-> 0, wrote |-> FALSE, stale |-> FALSE,
                     response |-> IF deployment = NoRecord THEN NotFound
                                  ELSE CustomerDeployment(deployment)]
       /\ UNCHANGED polls
    /\ UNCHANGED <<table, now, submits, tasks, remote>>
    /\ UNCHANGED files

\* up to the first await: the record is read; the handler answers 404 or the
\* record, or sends the poll
StatusRead(s, p) ==
    /\ polls[s].pc = "idle"
    /\ \A q \in 1..(s-1) : polls[q].pc # "idle"
    /\ LET deployment == get_deployment(table, p[1], p[2]) IN
       IF deployment # NoRecord /\ must_poll(deployment)
       THEN /\ polls' = [polls EXCEPT ![s] =
                  [pc |-> "get_deployment_status", customer_name |-> p[1],
                   environment |-> p[2], deployment |-> deployment]]
            /\ answer' = NoAnswer
       ELSE /\ answer' = [customer_name |-> p[1], environment |-> p[2],
                          remote_calls |-> 0, wrote |-> FALSE, stale |-> FALSE,
                          response |-> IF deployment = NoRecord THEN NotFound
                                       ELSE CustomerDeployment(deployment)]
            /\ UNCHANGED polls
    /\ UNCHANGED <<table, now, submits, tasks, remote>>
    /\ UNCHANGED files

\* a remote call of the reconciliation raises: except Exception: pass
StatusRemoteRaises(s, text) ==
    /\ polls[s].pc \in {"get_deployment_status", "get_stack_outputs"}
    /\ table' = reconcile_raised(table, now + 1, polls[s].deployment.stack_name, text)
    /\ now' = IF table' # table THEN now + 1 ELSE now
    /\ answer' = Answer(s, IF polls[s].pc = "get_stack_outputs" THEN 2 ELSE 1,
                        FALSE, CustomerDeployment(polls[s].deployment))
    /\ polls' = [polls EXCEPT ![s] = IdlePoll]
    /\ UNCHANGED <<submits, tasks, remote>>
    /\ UNCHANGED files

\* client.get_deployment_status returns the status the engine has now
StatusPollReturns(s) ==
    /\ polls[s].pc = "get_deployment_status"
    /\ LET deployment == polls[s].deployment
           sn == deployment.stack_name
           n == remote_index(deployment.pulumi_deployment_id)
       IN  /\ n \in 1..Len(remote[sn].deployments)
           /\ LET status == remote[sn].deployments[n]
                  failed_table == reconcile_failed(table, now + 1, sn, status.message)
                  updated == get_deployment(failed_table, polls[s].customer_name,
                                            polls[s].environment)
              IN  CASE status.status = "succeeded" ->
                         /\ polls' = [polls EXCEPT ![s].pc = "get_stack_outputs"]
                         /\ answer' = NoAnswer
                         /\ UNCHANGED <<table, now>>
                    [] status.status = "failed" ->
                         /\ table' = failed_table
                         /\ now' = now + 1
                         /\ polls' = [polls EXCEPT ![s] = IdlePoll]
                         /\ answer' = Answer(s, 1, TRUE, CustomerDeployment(
                                IF updated # NoRecord THEN updated ELSE deployment))
                    [] OTHER ->
                         /\ table' = reconcile_running(table, now + 1, sn)
                         /\ now' = IF table' # table THEN now + 1 ELSE now
                         /\ polls' = [polls EXCEPT ![s] = IdlePoll]
                         /\ answer' = Answer(s, 1, FALSE, CustomerDeployment(deployment))
    /\ UNCHANGED <<submits, tasks, remote>>
    /\ UNCHANGED files

\* client.get_stack_outputs returns; SUCCEEDED is written and the record re-read
StatusOutputsReturn(s) ==
    /\ polls[s].pc = "get_stack_outputs"
    /\ LET deployment == polls[s].deployment
           sn == deployment.stack_name
           succeeded_table == reconcile_succeeded(table, now + 1, sn, remote[sn].outputs)
           updated == get_deployment(succeeded_table, polls[s].customer_name,
                                     polls[s].environment)
       IN  /\ table' = succeeded_table
           /\ now' = now + 1
           /\ polls' = [polls EXCEPT ![s] = IdlePoll]
           /\ answer' = Answer(s, 2, TRUE, CustomerDeployment(
                  IF updated # NoRecord THEN updated ELSE deployment))
    /\ UNCHANGED <<submits, tasks, remote>>
    /\ UNCHANGED files

(***************************************************************************)
(* The program.                                                            *)
(***************************************************************************)
Next ==
    \/ \E r \in 1..MaxSubmits, p \in Pairs : SubmitArrive(r, p)
    \/ \E r \in 1..MaxSubmits : Submit(r)
    \/ \E i \in 1..Len(tasks) : RunStart(i)
    \/ \E i \in 1..Len(tasks), raises \in BOOLEAN : RunCreateStackReturns(i, raises)
    \/ \E i \in 1..Len(tasks) : RunConfigureReturns(i)
    \/ \E i \in 1..Len(tasks), text \in ExcTexts : RunConfigureRaises(i, text)
    \/ \E i \in 1..Len(tasks), has_id \in BOOLEAN : RunTriggerReturns(i, has_id)
    \/ \E i \in 1..Len(tasks), text \in ExcTexts : RunTriggerRaises(i, text)
    \/ \E sn \in StackNames, n \in 1..Len(DeploymentIds), o \in OutputMaps :
           RemoteSucceeds(sn, n, o)
    \/ \E sn \in StackNames, n \in 1..Len(DeploymentIds), m \in Messages :
           RemoteFails(sn, n, m)
    \/ \E s \in 1..MaxPolls, p \in Pairs : StatusRead(s, p)
    \/ \E s \in 1..MaxPolls, text \in ExcTexts : StatusRemoteRaises(s, text)
    \/ \E s \in 1..MaxPolls : StatusPollReturns(s)
    \/ \E s \in 1..MaxPolls : StatusOutputsReturn(s)

Spec == Init /\ [][Next]_vars

(***************************************************************************)
(* Vocabulary of the properties.                                           *)
(***************************************************************************)
SubmitKey(r) == stack_name_of(submits[r].customer_name, submits[r].environment)
Handled(sn) == {r \in 1..MaxSubmits : submits[r].pc = "done" /\ SubmitKey(r) = sn}
Accepted(sn) == {r \in Handled(sn) : submits[r].response.status_code = 200}
RowsOf(sn) == {i \in 1..Len(table) : table[i].stack_name = sn}
\* the onboard handler runs for request r in this step
SubmitStep(r) == submits[r].pc = "arrived" /\ submits'[r].pc = "done"
\* the background tasks of a key that have started and not finished
ActiveTasks(sn) ==
    {i \in 1..Len(tasks) : /\ task_stack_name(i) = sn
                           /\ tasks[i].pc \notin {"scheduled", "finished"}}
CONFLICT_IN_PROGRESS == "is already in progress"
CONFLICT_ALREADY_DEPLOYED == "already exists. Use update endpoint to modify."

(***************************************************************************)
(* C1.  Of the onboard requests for one key, exactly one is accepted and   *)
(* creates the row; every other one gets 409; no key ever has two rows.    *)
(***************************************************************************)
C1_ExactlyOneSubmitWins ==
    \A sn \in StackNames :
        /\ Cardinality(RowsOf(sn)) <= 1
        /\ Handled(sn) # {} =>
              /\ Cardinality(Accepted(sn)) = 1
              /\ Cardinality(RowsOf(sn)) = 1
              /\ \A r \in Handled(sn) \ Accepted(sn) :
                     submits[r].response.status_code = 409

\* two requests that both arrived while the key had no row: one won, one lost
C1_Witness ==
    \E r1, r2 \in 1..MaxSubmits :
        /\ r1 # r2
        /\ submits[r1].pc = "done" /\ submits[r2].pc = "done"
        /\ submits[r1].customer_name = submits[r2].customer_name
        /\ submits[r1].environment = submits[r2].environment
        /\ submits[r1].raced /\ submits[r2].raced
        /\ submits[r1].response.status_code = 200
        /\ submits[r2].response.status_code = 409

(***************************************************************************)
(* C2.  An onboard request for a key whose row is IN_PROGRESS is rejected  *)
(* with the in-progress conflict, one whose row is SUCCEEDED with the      *)
(* already-deployed conflict; the table is left as it was and no           *)
(* background task is added.                                               *)
(***************************************************************************)
C2_ConflictOnInProgressOrSucceeded ==
    [][\A r \in 1..MaxSubmits :
          LET existing == get_deployment(table, submits[r].customer_name,
                                         submits[r].environment)
          IN  (SubmitStep(r) /\ existing # NoRecord
                 /\ existing.status \in {IN_PROGRESS, SUCCEEDED})
              => /\ submits'[r].response.status_code = 409
                 /\ submits'[r].response.detail =
                       IF existing.status = IN_PROGRESS
                       THEN CONFLICT_IN_PROGRESS ELSE CONFLICT_ALREADY_DEPLOYED
                 /\ table' = table
                 /\ tasks' = tasks]_vars

\* a request was handled while the row was SUCCEEDED
C2_Witness ==
    \E r \in 1..MaxSubmits :
        /\ submits[r].pc = "done"
        /\ submits[r].existing = SUCCEEDED
        /\ submits[r].response.detail = CONFLICT_ALREADY_DEPLOYED

(***************************************************************************)
(* C3.  An onboard request for a key whose row is FAILED is accepted.      *)
(***************************************************************************)
C3_FailedJobCanBeResubmitted ==
    \A r \in 1..MaxSubmits :
        (submits[r].pc = "done" /\ submits[r].existing = FAILED)
        => submits[r].response.status_code = 200

(***************************************************************************)
(* C4.  For each key at most one background task has started and not yet   *)
(* finished.                                                               *)
(***************************************************************************)
C4_AtMostOneActiveTask ==
    \A sn \in StackNames : Cardinality(ActiveTasks(sn)) <= 1

\* a task is in the middle of its sequence and a second request for its key
\* has been handled
C4_Witness ==
    \E i \in 1..Len(tasks), r \in 1..MaxSubmits :
        /\ tasks[i].pc = "trigger"
        /\ submits[r].pc = "done"
        /\ r # tasks[i].submit
        /\ SubmitKey(r) = task_stack_name(i)

(***************************************************************************)
(* C5.  Only an onboard request may take a row from a terminal status      *)
(* (SUCCEEDED, FAILED, DESTROYED) to a non-terminal one; no step of a      *)
(* status request or of the background task does.                          *)
(***************************************************************************)
C5_TerminalNeverRegresses ==
    [][\A i \in 1..Len(table) :
          table[i].status \in Terminal
          => \/ /\ i <= Len(table')
                /\ table'[i].status \in Terminal
             \/ \E r \in 1..MaxSubmits : SubmitStep(r)]_vars

\* of two status requests that both read IN_PROGRESS, the second has just
\* written to the row the first had already made terminal
C5_Witness ==
    /\ answer.wrote /\ answer.stale
    /\ \E i \in 1..Len(table) : table[i].status \in Terminal

(***************************************************************************)
(* C6.  A row has outputs only if it is SUCCEEDED and an error_message     *)
(* only if it is FAILED.                                                   *)
(***************************************************************************)
C6_OutputsOnlyIfSucceededErrorOnlyIfFailed ==
    \A i \in 1..Len(table) :
        /\ table[i].outputs # None => table[i].status = SUCCEEDED
        /\ table[i].error_message # None => table[i].status = FAILED

\* a status request has reconciled a row that now carries outputs
C6_Witness ==
    \E i \in 1..Len(table) :
        /\ table[i].outputs # None
        /\ answer.wrote
        /\ answer.response.id = table[i].id

(***************************************************************************)
(* C7.  A SUCCEEDED row has outputs and no error_message; a FAILED row     *)
(* has an error_message and no outputs.                                    *)
(***************************************************************************)
C7_TerminalRowsCarryTheirDetail ==
    \A i \in 1..Len(table) :
        /\ table[i].status = SUCCEEDED
              => table[i].outputs # None /\ table[i].error_message = None
        /\ table[i].status = FAILED
              => table[i].error_message # None /\ table[i].outputs = None

(***************************************************************************)
(* C8.  Once a row has a pulumi_deployment_id, no step changes or clears   *)
(* it.                                                                     *)
(***************************************************************************)
C8_RemoteJobIdSetOnce ==
    [][\A i \in 1..Len(table) :
          table[i].pulumi_deployment_id # None
          => /\ i <= Len(table')
             /\ table'[i].pulumi_deployment_id = table[i].pulumi_deployment_id]_vars

\* a row that got its id from the background task was written again later
C8_Witness ==
    \E i \in 1..Len(table) :
        /\ table[i].pulumi_deployment_id # None
        /\ table[i].status \in {SUCCEEDED, FAILED}

(***************************************************************************)
(* C9.  When an onboard request is accepted the row exists with status     *)
(* PENDING; it is PENDING until the background task starts; and a status   *)
(* request for a key with an accepted onboard request never gets 404.      *)
(***************************************************************************)
C9_PendingRowBeforeResponse ==
    [][/\ \A r \in 1..MaxSubmits :
              (SubmitStep(r) /\ submits'[r].response.status_code = 200)
              => /\ get_deployment(table', submits[r].customer_name,
                                   submits[r].environment) # NoRecord
                 /\ get_deployment(table', submits[r].customer_name,
                                   submits[r].environment).status = PENDING
       /\ \A i \in 1..Len(tasks') :
              tasks'[i].pc = "scheduled"
              => /\ first(table', stack_name_of(tasks'[i].customer_name,
                                                tasks'[i].environment)) # NoRecord
                 /\ first(table', stack_name_of(tasks'[i].customer_name,
                                                tasks'[i].environment)).status = PENDING
       /\ answer'.response = NotFound
              => Accepted(stack_name_of(answer'.customer_name,
                                        answer'.environment)) = {}]_vars

\* a status request issued right after the accepted onboard request, before
\* the background task has started, got the PENDING row
C9_Witness ==
    \E i \in 1..Len(tasks) :
        /\ tasks[i].pc = "scheduled"
        /\ submits[tasks[i].submit].response.status_code = 200
        /\ answer.response.status_code = 200
        /\ answer.response.status = PENDING
        /\ answer.response.stack_name = task_stack_name(i)

(***************************************************************************)
(* C10.  A status request that polled "succeeded" stores SUCCEEDED with    *)
(* the fetched outputs, one that polled "failed" stores FAILED with the    *)
(* reported detail, and either returns the row as it is after that write.  *)
(***************************************************************************)
C10_ReconcileStoresWhatThePollReported ==
    [][\A s \in 1..MaxPolls :
          LET sn == polls[s].deployment.stack_name
              n == remote_index(polls[s].deployment.pulumi_deployment_id)
              row == first(table', sn)
          IN  /\ (polls[s].pc = "get_stack_outputs" /\ polls'[s].pc = "idle"
                    /\ answer'.wrote)
                 => /\ row.status = SUCCEEDED
                    /\ row.outputs # None
                    /\ JsonLoads(row.outputs) = remote[sn].outputs
                    /\ answer'.response = CustomerDeployment(row)
                    /\ answer'.response.has_outputs
                    /\ answer'.response.outputs = remote[sn].outputs
              /\ (polls[s].pc = "get_deployment_status" /\ polls'[s].pc = "idle"
                    /\ answer'.wrote)
                 => /\ row.status = FAILED
                    /\ row.error_message =
                          IF remote[sn].deployments[n].message = Absent
                          THEN "Deployment failed"
                          ELSE remote[sn].deployments[n].message
                    /\ answer'.response = CustomerDeployment(row)]_vars

\* the engine's deployment a polling status request asks about
polled(s) ==
    remote[polls[s].deployment.stack_name].deployments[
        remote_index(polls[s].deployment.pulumi_deployment_id)]
\* status request s gets the result of its poll in this step and answers
\* without going on to the outputs
PollAnswered(s) == polls[s].pc = "get_deployment_status" /\ polls'[s].pc = "idle"

(***************************************************************************)
(* C11.  A status request whose poll finds the engine still running        *)
(* returns the stored row and leaves the table, updated_at included, as it *)
(* was, however often it is repeated.                                      *)
(***************************************************************************)
C11_StatusIdempotentWhileRunning ==
    [][\A s \in 1..MaxPolls :
          (PollAnswered(s) /\ polled(s).status = "running")
          => /\ table' = table
             /\ answer'.response =
                   CustomerDeployment(first(table, polls[s].deployment.stack_name))
             /\ answer'.response.status = IN_PROGRESS
             /\ answer'.response.updated_at = polls[s].deployment.updated_at]_vars

\* a status request has just been answered from a running deployment while
\* another one for the same row is still polling
C11_Witness ==
    /\ answer.remote_calls = 1 /\ ~answer.wrote
    /\ answer.response.status = IN_PROGRESS
    /\ \E s \in 1..MaxPolls :
          /\ polls[s].pc = "get_deployment_status"
          /\ polled(s).status = "running"
          /\ polls[s].deployment.id = answer.response.id

(***************************************************************************)
(* C12.  When the poll or the outputs fetch of a status request raises,    *)
(* the request is answered 200 with the row as it was read and the table   *)
(* is left unchanged.                                                      *)
(***************************************************************************)
C12_RemoteFailureIsSwallowed ==
    [][\A s \in 1..MaxPolls :
          (/\ polls[s].pc \in {"get_deployment_status", "get_stack_outputs"}
           /\ polls'[s].pc = "idle"
           /\ ~answer'.wrote)
          => /\ table' = table
             /\ now' = now
             /\ answer'.response.status_code = 200
             /\ answer'.response = CustomerDeployment(polls[s].deployment)]_vars

\* the outputs fetch after a succeeded poll has just raised: two remote
\* calls, nothing written, the row still IN_PROGRESS
C12_Witness ==
    /\ answer.remote_calls = 2 /\ ~answer.wrote
    /\ answer.response.status = IN_PROGRESS
    /\ \E i \in 1..Len(table) :
          table[i].id = answer.response.id /\ table[i].status = IN_PROGRESS

(***************************************************************************)
(* C13.  A status request for a pair without a row is answered 404; it     *)
(* sends no remote call and writes nothing.                                *)
(***************************************************************************)
C13_UnknownPairIsNotFound ==
    [][/\ (/\ answer' # NoAnswer
           /\ polls' = polls
           /\ get_deployment(table, answer'.customer_name,
                             answer'.environment) = NoRecord)
          => /\ answer'.response.status_code = 404
             /\ answer'.remote_calls = 0
             /\ table' = table /\ now' = now
             /\ tasks' = tasks /\ remote' = remote
       /\ \A s \in 1..MaxPolls :
             (polls[s].pc = "idle" /\ polls'[s].pc # "idle")
             => get_deployment(table, polls'[s].customer_name,
                               polls'[s].environment) # NoRecord]_vars

\* 404 while an onboard request for the key has arrived but is not handled
C13_Witness ==
    /\ answer.response.status_code = 404
    /\ answer.remote_calls = 0
    /\ \E r \in 1..MaxSubmits :
          /\ submits[r].pc = "arrived"
          /\ submits[r].customer_name = answer.customer_name
          /\ submits[r].environment = answer.environment

\* the row a background task works on
task_row(t, i) == first(t, task_stack_name(i))
\* a step in which a remote call of task i raised
StepFailed(i) ==
    \/ tasks[i].pc = "create_stack" /\ tasks'[i].create_stack_raised
    \/ tasks[i].pc = "configure" /\ tasks'[i].pc = "finished"
    \/ tasks[i].pc = "trigger" /\ tasks'[i].pc = "finished" /\ remote' = remote

(***************************************************************************)
(* C14.  When create_stack, configure_deployment_settings or               *)
(* trigger_deployment raises in a background task, the task ends there,    *)
(* sending no further call, and its row is FAILED with an error_message.   *)
(***************************************************************************)
C14_StepFailureFailsTheJobAndHalts ==
    [][\A i \in 1..Len(tasks) :
          StepFailed(i)
          => /\ tasks'[i].pc = "finished"
             /\ task_row(table', i).status = FAILED
             /\ task_row(table', i).error_message # None]_vars

(***************************************************************************)
(* C15.  A row whose background task has finished and left it IN_PROGRESS  *)
(* carries the id of the deployment the trigger started.                   *)
(***************************************************************************)
C15_TriggeredJobHasItsRemoteId ==
    \A i \in 1..Len(tasks) :
        (tasks[i].pc = "finished" /\ task_row(table, i).status = IN_PROGRESS)
        => task_row(table, i).pulumi_deployment_id # None

(***************************************************************************)
(* C16.  The table never holds two rows with one stack_name, and           *)
(* create_deployment for a stack_name that has a row raises "already       *)
(* exists" and leaves the table as it was: an onboard request that gets    *)
(* as far as the create on an existing row is answered 409, and the row    *)
(* keeps the region and the names of the request that created it.          *)
(***************************************************************************)
C16_OneRowPerKeyCreateNeverOverwrites ==
    /\ \A sn \in StackNames : Cardinality(RowsOf(sn)) <= 1
    /\ \A q \in Pairs, g \in 1..Len(Regions) :
          get_deployment(table, q[1], q[2]) # NoRecord
          => create_deployment(table, now + 1, q[1], q[2], Regions[g], RoleArn)
                = [raised |-> "ValueError", table |-> table]
    /\ \A r \in 1..MaxSubmits :
          (submits[r].pc = "done" /\ submits[r].existing \in {PENDING, FAILED})
          => /\ submits[r].response.status_code = 409
             /\ submits[r].response.detail = "already exists"
             /\ \E a \in Accepted(SubmitKey(r)) \ {r} :
                   /\ first(table, SubmitKey(r)).aws_region = submits[a].aws_region
                   /\ first(table, SubmitKey(r)).customer_name = submits[a].customer_name
                   /\ first(table, SubmitKey(r)).environment = submits[a].environment

\* a request with another region than the row's has been refused by the
\* create itself, the row being neither IN_PROGRESS nor SUCCEEDED
C16_Witness ==
    \E r \in 1..MaxSubmits :
        /\ submits[r].pc = "done"
        /\ submits[r].response.detail = "already exists"
        /\ submits[r].existing \in {PENDING, FAILED}
        /\ Len(table) = 1
        /\ table[1].stack_name = SubmitKey(r)
        /\ table[1].aws_region # submits[r].aws_region

(***************************************************************************)
(* The store on its own: Database driven by any caller, with any           *)
(* arguments, from the empty table.                                        *)
(***************************************************************************)
\* the keys of the service and one that never collides with them
StorePairs == Pairs \cup { << <<"zeta">>, <<"prod">> >> }
StoreNames == { stack_name_of(p[1], p[2]) : p \in StorePairs }
\* arguments of update_deployment_status: omitted, empty, given
UpdateIds == {None, "", DeploymentIds[2]}
UpdateOutputs == {None, "", JsonDumps(VpcOutputs)}
UpdateErrors == {None, "", "update failed"}
\* the statuses the callers in main.py pass
UpdateStatuses == {IN_PROGRESS, SUCCEEDED, FAILED}

StoreCreate(p) ==
    /\ now < MaxCalls
    /\ table' = create_deployment(table, now + 1, p[1], p[2],
                                  region_of(Len(table) + 1), RoleArn).table
    /\ table' # table
    /\ now' = now + 1
    /\ UNCHANGED <<submits, tasks, polls, answer, remote>>
    /\ UNCHANGED files

StoreUpdate(sn, status, pulumi_deployment_id, outputs, error_message) ==
    /\ now < MaxCalls
    /\ table' = update_deployment_status(table, now + 1, sn, status,
                                         pulumi_deployment_id, outputs, error_message)
    /\ now' = now + 1
    /\ UNCHANGED <<submits, tasks, polls, answer, remote>>
    /\ UNCHANGED files

NextStore ==
    \/ \E p \in StorePairs : StoreCreate(p)
    \/ \E sn \in StoreNames, status \in UpdateStatuses, pulumi_deployment_id \in UpdateIds,
          outputs \in UpdateOutputs, error_message \in UpdateErrors :
          StoreUpdate(sn, status, pulumi_deployment_id, outputs, error_message)

SpecStore == Init /\ [][NextStore]_vars

\* the columns update_deployment_status has no assignment for
Kept(row) ==
    <<row.id, row.customer_name, row.environment, row.stack_name,
      row.aws_region, row.role_arn, row.created_at>>

(***************************************************************************)
(* C17.  update_deployment_status, applied to any table the store can hold *)
(* with any arguments: for a stack_name without a row the table is left as *)
(* it was; otherwise the row gets the status and a fresh updated_at, each  *)
(* of pulumi_deployment_id, outputs and error_message changes only if it   *)
(* was passed and then to the value passed, and id, customer_name,         *)
(* environment, stack_name, aws_region, role_arn, created_at and all other *)
(* rows are as before.                                                     *)
(***************************************************************************)
C17_UpdateStatusIsAPartialUpdate ==
    \A sn \in StoreNames, status \in DeploymentStatus, pulumi_deployment_id \in UpdateIds,
       outputs \in UpdateOutputs, error_message \in UpdateErrors :
        LET after == update_deployment_status(table, now + 1, sn, status,
                                              pulumi_deployment_id, outputs, error_message)
            rows == {i \in 1..Len(table) : table[i].stack_name = sn}
        IN  IF rows = {} THEN after = table
            ELSE /\ Len(after) = Len(table)
                 /\ \A i \in 1..Len(table) :
                       IF i \in rows
                       THEN /\ DOMAIN after[i] = DOMAIN table[i]
                            /\ Kept(after[i]) = Kept(table[i])
                            /\ after[i].status = status
                            /\ after[i].updated_at = now + 1
                            /\ pulumi_deployment_id = None =>
                                  after[i].pulumi_deployment_id = table[i].pulumi_deployment_id
                            /\ outputs = None => after[i].outputs = table[i].outputs
                            /\ error_message = None =>
                                  after[i].error_message = table[i].error_message
                            /\ after[i].pulumi_deployment_id
                                  \in {table[i].pulumi_deployment_id, pulumi_deployment_id}
                            /\ after[i].outputs \in {table[i].outputs, outputs}
                            /\ after[i].error_message \in {table[i].error_message, error_message}
                            /\ Truthy(pulumi_deployment_id) =>
                                  after[i].pulumi_deployment_id = pulumi_deployment_id
                            /\ Truthy(outputs) => after[i].outputs = outputs
                            /\ Truthy(error_message) => after[i].error_message = error_message
                       ELSE after[i] = table[i]

\* two rows; the first was updated, with an id and an error_message and no
\* outputs, after the second was created, and the second is as created
C17_Witness ==
    /\ Len(table) = 2
    /\ table[1].updated_at > table[2].created_at
    /\ table[1].status = FAILED
    /\ table[1].pulumi_deployment_id = DeploymentIds[2]
    /\ table[1].error_message = "update failed"
    /\ table[1].outputs = None
    /\ table[2].status = PENDING
    /\ table[2].updated_at = table[2].created_at

\* values the callers of update_deployment_status pass for its optional
\* arguments, None for one left out
PassedIds == {None} \cup {DeploymentIds[n] : n \in 1..Len(DeploymentIds)}
PassedOutputs == {None} \cup {JsonDumps(m) : m \in OutputMaps}
PassedErrors == {None, "Deployment failed"} \cup ((ExcTexts \cup Messages) \ {"", Absent})
\* row after one whole update_deployment_status of row before, made at clock
WholeUpdate(before, after, clock) ==
    /\ Kept(after) = Kept(before)
    /\ after.status \in DeploymentStatus
    /\ after.updated_at = clock
    /\ after.pulumi_deployment_id \in {before.pulumi_deployment_id} \cup (PassedIds \ {None})
    /\ after.outputs \in {before.outputs} \cup (PassedOutputs \ {None})
    /\ after.error_message \in {before.error_message} \cup (PassedErrors \ {None})

(***************************************************************************)
(* C18.  However background tasks and status requests interleave, every    *)
(* change of a row is one whole update_deployment_status applied to the    *)
(* row as it is stored at that moment, not to the copy its caller read     *)
(* earlier, so the stored row is always the result of the calls made so    *)
(* far applied one after another.                                          *)
(***************************************************************************)
C18_UpdatesApplyOneAfterAnother ==
    [][/\ Len(table') >= Len(table)
       /\ \A i \in 1..Len(table) :
             table'[i] # table[i] => WholeUpdate(table[i], table'[i], now')]_vars

\* a status request has just written the row while another one, which read
\* the row before that write, is waiting for the outputs and will write next
C18_Witness ==
    /\ answer.wrote
    /\ \E s \in 1..MaxPolls :
          /\ polls[s].pc = "get_stack_outputs"
          /\ polls[s].deployment.status = IN_PROGRESS
          /\ first(table, polls[s].deployment.stack_name).status = SUCCEEDED
          /\ first(table, polls[s].deployment.stack_name).updated_at
                > polls[s].deployment.updated_at

(***************************************************************************)
(* The destroy operation.  models.py defines its request body; main.py     *)
(* has no route for it, so the handler follows the specification:          *)
(* POST /deployments/{customerId}/{environment}/destroy, body {confirm},   *)
(* valid from SUCCEEDED or FAILED, triggers a destroy and sets DESTROYING. *)
(***************************************************************************)
\* a validator that lets every value through
validate_confirm_accepts(v) == [raised |-> None, confirm |-> v]

\* DestroyRequest.validate_confirm
validate_confirm(v) ==
    IF ~v THEN [raised |-> "confirm must be true to destroy infrastructure", confirm |-> v]
    ELSE [raised |-> None, confirm |-> v]

\* request bodies: {"confirm": true}, {"confirm": false}, {}
DestroyBodies ==
    { [has_confirm |-> TRUE, confirm |-> TRUE],
      [has_confirm |-> TRUE, confirm |-> FALSE],
      [has_confirm |-> FALSE, confirm |-> FALSE] }

\* DestroyRequest(**body): confirm is required (Field(...)) and validated
DestroyRequest(body) ==
    IF ~body.has_confirm THEN [raised |-> "Field required", confirm |-> FALSE]
    ELSE validate_confirm(body.confirm)

DestroyAnswer(p, body, remote_calls, wrote, response) ==
    [customer_name |-> p[1], environment |-> p[2], remote_calls |-> remote_calls,
     wrote |-> wrote, stale |-> FALSE, response |-> response @@ [body |-> body]]

\* the body does not validate: the request is answered before the handler runs
DestroyRejected(p, body) ==
    /\ DestroyRequest(body).raised # None
    /\ answer' = DestroyAnswer(p, body, 0, FALSE,
                               [status_code |-> 422, error |-> "VALIDATION_ERROR",
                                detail |-> DestroyRequest(body).raised])
    /\ UNCHANGED <<table, now, submits, tasks, polls, remote>>
    /\ UNCHANGED files

\* the handler
Destroy(p, body) ==
    /\ DestroyRequest(body).raised = None
    /\ LET sn == stack_name_of(p[1], p[2])
           deployment == get_deployment(table, p[1], p[2])
       IN  IF deployment = NoRecord \/ deployment.status \notin {SUCCEEDED, FAILED}
           THEN /\ answer' = DestroyAnswer(p, body, 0, FALSE, NotFound)
                /\ UNCHANGED <<table, now, remote>>
           ELSE /\ Len(remote[sn].deployments) < Len(DeploymentIds)
                /\ remote' = [remote EXCEPT ![sn].deployments =
                                 Append(@, [status |-> "running", message |-> Absent,
                                            outputs |-> EmptyOutputs,
                                            operation |-> "destroy"])]
                /\ table' = update_deployment_status(table, now + 1, sn, DESTROYING,
                                                     None, None, None)
                /\ now' = now + 1
                /\ answer' = DestroyAnswer(p, body, 1, TRUE,
                                           [status_code |-> 202, status |-> DESTROYING])
    /\ UNCHANGED <<submits, tasks, polls>>
    /\ UNCHANGED files

\* the engine finishes a destroy: the stack has no outputs any more
RemoteDestroySucceeds(sn, n) ==
    /\ n \in 1..Len(remote[sn].deployments)
    /\ remote[sn].deployments[n].status = "running"
    /\ remote[sn].deployments[n].operation = "destroy"
    /\ remote' = [remote EXCEPT ![sn].deployments[n].status = "succeeded",
                                ![sn].outputs = EmptyOutputs]
    /\ answer' = NoAnswer
    /\ UNCHANGED <<table, now, submits, tasks, polls>>
    /\ UNCHANGED files

NextDestroy ==
    \/ \E r \in 1..MaxClients, p \in Pairs : SubmitArrive(r, p)
    \/ \E r \in 1..MaxClients : Submit(r)
    \/ \E i \in 1..Len(tasks) : RunStart(i)
    \/ \E i \in 1..Len(tasks), raises \in BOOLEAN : RunCreateStackReturns(i, raises)
    \/ \E i \in 1..Len(tasks) : RunConfigureReturns(i)
    \/ \E i \in 1..Len(tasks), text \in ExcTexts : RunConfigureRaises(i, text)
    \/ \E i \in 1..Len(tasks), has_id \in BOOLEAN : RunTriggerReturns(i, has_id)
    \/ \E i \in 1..Len(tasks), text \in ExcTexts : RunTriggerRaises(i, text)
    \/ \E sn \in StackNames, n \in 1..Len(DeploymentIds), o \in OutputMaps :
           RemoteSucceeds(sn, n, o)
    \/ \E sn \in StackNames, n \in 1..Len(DeploymentIds), m \in Messages :
           RemoteFails(sn, n, m)
    \/ \E sn \in StackNames, n \in 1..Len(DeploymentIds) : RemoteDestroySucceeds(sn, n)
    \/ \E s \in 1..MaxClients, p \in Pairs : StatusRead(s, p)
    \/ \E s \in 1..MaxClients, text \in ExcTexts : StatusRemoteRaises(s, text)
    \/ \E s \in 1..MaxClients : StatusPollReturns(s)
    \/ \E s \in 1..MaxClients : StatusOutputsReturn(s)
    \/ \E p \in Pairs, body \in DestroyBodies : DestroyRejected(p, body)
    \/ \E p \in Pairs, body \in DestroyBodies : Destroy(p, body)

SpecDestroy == Init /\ [][NextDestroy]_vars

\* the step answers a destroy request
DestroyAnswered == "body" \in DOMAIN answer'.response
\* the row of the pair the last answer is about
answered_row == get_deployment(table, answer.customer_name, answer.environment)

C20_DestroyingJobBecomesDestroyed ==
    (/\ "status" \in DOMAIN answer.response
     /\ answer.response.status_code = 200
     /\ answer.response.status = DESTROYING)
    => \A n \in 1..Len(remote[answer.response.stack_name].deployments) :
          LET d == remote[answer.response.stack_name].deployments[n]
          IN  d.operation = "destroy" => d.status # "succeeded"

(***************************************************************************)
(* The service with a store that can be unreachable.  Any Database call    *)
(* may raise; the actions below are the handlers' and the task's paths     *)
(* through such a raise.  MaxClients requests of each kind.                *)
(***************************************************************************)
NextClients ==
    \/ \E r \in 1..MaxClients, p \in Pairs : SubmitArrive(r, p)
    \/ \E r \in 1..MaxClients : Submit(r)
    \/ \E i \in 1..Len(tasks) : RunStart(i)
    \/ \E i \in 1..Len(tasks), raises \in BOOLEAN : RunCreateStackReturns(i, raises)
    \/ \E i \in 1..Len(tasks) : RunConfigureReturns(i)
    \/ \E i \in 1..Len(tasks), text \in ExcTexts : RunConfigureRaises(i, text)
    \/ \E i \in 1..Len(tasks), has_id \in BOOLEAN : RunTriggerReturns(i, has_id)
    \/ \E i \in 1..Len(tasks), text \in ExcTexts : RunTriggerRaises(i, text)
    \/ \E sn \in StackNames, n \in 1..Len(DeploymentIds), o \in OutputMaps :
           RemoteSucceeds(sn, n, o)
    \/ \E sn \in StackNames, n \in 1..Len(DeploymentIds), m \in Messages :
           RemoteFails(sn, n, m)
    \/ \E s \in 1..MaxClients, p \in Pairs : StatusRead(s, p)
    \/ \E s \in 1..MaxClients, text \in ExcTexts : StatusRemoteRaises(s, text)
    \/ \E s \in 1..MaxClients : StatusPollReturns(s)
    \/ \E s \in 1..MaxClients : StatusOutputsReturn(s)

\* the service with MaxClients requests of each kind
SpecClients == Init /\ [][NextClients]_vars

\* str(e) of the exception an unreachable store raises
StoreErrorText == "(sqlite3.OperationalError) unable to open database file"

\* what a step in which a Database call raised leaves in answer
StoreRaised(a, who) == a @@ [store_raised |-> TRUE] @@ who

\* onboard_customer: get_deployment or create_deployment raises; neither is
\* a ValueError, so the exception leaves the handler: 500
SubmitStoreRaises(r) ==
    /\ submits[r].pc = "arrived"
    /\ submits' = [submits EXCEPT ![r] =
                      [@ EXCEPT !.pc = "done",
                                !.response = [status_code |-> 500,
                                              detail |-> StoreErrorText,
                                              status |-> None]]]
    /\ answer' = StoreRaised(NoAnswer, [submit |-> r])
    /\ UNCHANGED <<table, now, tasks, polls, remote>>
    /\ UNCHANGED files

\* run_deployment: the first update raises inside the try; the except branch
\* calls update_deployment_status again, which writes FAILED when the store
\* is back and otherwise raises out of the task (unhandled: the server logs
\* the traceback)
RunStartStoreRaises(i, recovers) ==
    /\ tasks[i].pc = "scheduled"
    /\ IF recovers
       THEN run_deployment_failed(i, StoreErrorText)
       ELSE /\ tasks' = [tasks EXCEPT ![i].pc = "finished"]
            /\ UNCHANGED <<table, now>>
    /\ answer' = StoreRaised(NoAnswer, [task |-> i, unhandled |-> ~recovers])
    /\ UNCHANGED <<submits, polls, remote>>
    /\ UNCHANGED files

\* get_deployment_status: db.get_deployment at line 168 raises outside the
\* try: 500
StatusReadStoreRaises(p) ==
    /\ answer' = StoreRaised([customer_name |-> p[1], environment |-> p[2],
                              remote_calls |-> 0, wrote |-> FALSE, stale |-> FALSE,
                              response |-> [status_code |-> 500]],
                             [status_request |-> TRUE])
    /\ UNCHANGED <<table, now, submits, tasks, polls, remote>>
    /\ UNCHANGED files

\* get_deployment_status: the update of the succeeded or failed branch
\* raises inside the try: except Exception: pass, and the row as read is
\* returned
StatusWriteStoreRaises(s) ==
    /\ \/ polls[s].pc = "get_stack_outputs"
       \/ polls[s].pc = "get_deployment_status" /\ polled(s).status = "failed"
    /\ answer' = StoreRaised(Answer(s, IF polls[s].pc = "get_stack_outputs" THEN 2 ELSE 1,
                                    FALSE, CustomerDeployment(polls[s].deployment)),
                             [status_request |-> TRUE])
    /\ polls' = [polls EXCEPT ![s] = IdlePoll]
    /\ UNCHANGED <<table, now, submits, tasks, remote>>
    /\ UNCHANGED files

NextStoreFaults ==
    \/ NextClients
    \/ \E r \in 1..MaxClients : SubmitStoreRaises(r)
    \/ \E i \in 1..Len(tasks), recovers \in BOOLEAN : RunStartStoreRaises(i, recovers)
    \/ \E p \in Pairs : StatusReadStoreRaises(p)
    \/ \E s \in 1..MaxClients : StatusWriteStoreRaises(s)

SpecStoreFaults == Init /\ [][NextStoreFaults]_vars

(***************************************************************************)
(* C21.  A Database call that raises ends its request with a 5xx answer,   *)
(* and in the background task either leaves the task as an unhandled       *)
(* exception or ends it with the row FAILED and the error recorded; no     *)
(* such raise is swallowed.                                                *)
(***************************************************************************)
C21_StoreFailureSurfaces ==
    [][("store_raised" \in DOMAIN answer')
       => IF "task" \in DOMAIN answer'
          THEN \/ answer'.unhandled
               \/ /\ task_row(table', answer'.task).status = FAILED
                  /\ task_row(table', answer'.task).error_message # None
          ELSE IF "submit" \in DOMAIN answer'
          THEN submits'[answer'.submit].response.status_code >= 500
          ELSE answer'.response.status_code >= 500]_vars

(***************************************************************************)
(* The external id.  Two runs of the service that get the same requests    *)
(* and the same answers of the engine, and differ only in the external_id  *)
(* of the request bodies, are run side by side: every request is handled   *)
(* once with each external_id, on the table the runs share as long as      *)
(* their results agree, and answer keeps both results.                     *)
(***************************************************************************)
\* min_length of external_id
ExternalIdMinLength == 10
\* external ids as sequences of digits: one too short, two that validate
ExternalIds ==
    { <<1, 2, 3, 4, 5, 6, 7, 8, 9>>,
      <<1, 2, 3, 4, 5, 6, 7, 8, 9, 0>>,
      <<0, 9, 8, 7, 6, 5, 4, 3, 2, 1>> }

\* CustomerOnboardRequest(**body): the Field constraints of external_id
CustomerOnboardRequest(customer_name, environment, role_arn, external_id, aws_region) ==
    [raised |-> IF Len(external_id) < ExternalIdMinLength
                  THEN "string_too_short" ELSE None,
     customer_name |-> customer_name, environment |-> environment,
     role_arn |-> role_arn, external_id |-> external_id, aws_region |-> aws_region]

\* the pre-run commands configure_deployment_settings sends to the engine:
\* the one place the handlers pass external_id on
pre_run_commands(request) ==
    [customerName |-> request.customer_name, environment |-> request.environment,
     customerRoleArn |-> request.role_arn, externalId |-> request.external_id,
     awsRegion |-> request.aws_region]

\* POST /api/v1/customers/onboard with a body: 422 before the handler when
\* the body does not validate
onboard_request(t, clock, customer_name, environment, role_arn, external_id, aws_region) ==
    LET request == CustomerOnboardRequest(customer_name, environment, role_arn,
                                          external_id, aws_region)
    IN  IF request.raised # None
        THEN [status_code |-> 422, detail |-> request.raised, status |-> None,
              table |-> t, add_task |-> FALSE, existing |-> None]
        ELSE onboard_customer(t, clock, request.customer_name, request.environment,
                              request.aws_region, request.role_arn)

\* CustomerConfigCreate(**body), CustomerConfig.from_create_request
from_create_request(clock, customer_id, role_arn, external_id, aws_region) ==
    [raised |-> IF Len(external_id) < ExternalIdMinLength
                  THEN "string_too_short" ELSE None,
     customer_id |-> customer_id, role_arn |-> role_arn,
     external_id |-> external_id, aws_region |-> aws_region,
     created_at |-> clock, updated_at |-> clock]

\* a response that copies every field of the configuration
from_config_all_fields(config) ==
    [status_code |-> 200, customer_id |-> config.customer_id,
     role_arn |-> config.role_arn, aws_region |-> config.aws_region,
     external_id |-> config.external_id,
     created_at |-> config.created_at, updated_at |-> config.updated_at]

\* CustomerConfigResponse.from_config
from_config(config) ==
    [status_code |-> 200, customer_id |-> config.customer_id,
     role_arn |-> config.role_arn, aws_region |-> config.aws_region,
     created_at |-> config.created_at, updated_at |-> config.updated_at]

\* what one run shows of a request: the response and the job records
Shown(response, t) == [response |-> response, table |-> t]
BothRuns(operation, e1, e2, left, right) ==
    [operation |-> operation, external_ids |-> <<e1, e2>>, left |-> left, right |-> right]

\* an onboard request, handled with external_id e1 and with e2
SecretOnboard(p, g, e1, e2) ==
    /\ Len(tasks) < MaxClients
    /\ LET left == onboard_request(table, now + 1, p[1], p[2], RoleArn, e1, Regions[g])
           right == onboard_request(table, now + 1, p[1], p[2], RoleArn, e2, Regions[g])
           response(res) == [status_code |-> res.status_code, detail |-> res.detail,
                             status |-> res.status]
       IN  /\ table' = left.table
           /\ now' = IF left.table # table THEN now + 1 ELSE now
           /\ tasks' = IF left.add_task
                         THEN Append(tasks, [pc |-> "scheduled", customer_name |-> p[1],
                                             environment |-> p[2], submit |-> 1,
                                             create_stack_raised |-> FALSE])
                         ELSE tasks
           /\ answer' = BothRuns("onboard", e1, e2,
                                 Shown(response(left), left.table),
                                 Shown(response(right), right.table))
    /\ UNCHANGED <<submits, polls, remote>>
    /\ UNCHANGED files

\* a status request in both runs
SecretStatus(p, e1, e2) ==
    /\ LET deployment == get_deployment(table, p[1], p[2])
           response == IF deployment = NoRecord THEN NotFound
                       ELSE CustomerDeployment(deployment)
       IN  answer' = BothRuns("status", e1, e2, Shown(response, table),
                              Shown(response, table))
    /\ UNCHANGED <<table, now, submits, tasks, polls, remote>>
    /\ UNCHANGED files

\* a configuration created from a body with e1 and with e2, and returned
SecretConfig(p, g, e1, e2) ==
    /\ LET response(config) == IF config.raised # None
                               THEN [status_code |-> 422, detail |-> config.raised]
                               ELSE from_config(config)
           left == from_create_request(now, p[1], RoleArn, e1, Regions[g])
           right == from_create_request(now, p[1], RoleArn, e2, Regions[g])
       IN  answer' = BothRuns("config", e1, e2, Shown(response(left), table),
                              Shown(response(right), table))
    /\ UNCHANGED <<table, now, submits, tasks, polls, remote>>
    /\ UNCHANGED files

NextSecret ==
    \/ \E p \in Pairs, g \in 1..Len(Regions), e1 \in ExternalIds, e2 \in ExternalIds :
          SecretOnboard(p, g, e1, e2)
    \/ \E p \in Pairs, e1 \in ExternalIds, e2 \in ExternalIds : SecretStatus(p, e1, e2)
    \/ \E p \in Pairs, g \in 1..Len(Regions), e1 \in ExternalIds, e2 \in ExternalIds :
          SecretConfig(p, g, e1, e2)
    \/ \E i \in 1..Len(tasks) : RunStart(i)
    \/ \E i \in 1..Len(tasks), raises \in BOOLEAN : RunCreateStackReturns(i, raises)
    \/ \E i \in 1..Len(tasks) : RunConfigureReturns(i)
    \/ \E i \in 1..Len(tasks), text \in ExcTexts : RunConfigureRaises(i, text)
    \/ \E i \in 1..Len(tasks), has_id \in BOOLEAN : RunTriggerReturns(i, has_id)
    \/ \E i \in 1..Len(tasks), text \in ExcTexts : RunTriggerRaises(i, text)
    \/ \E sn \in StackNames, n \in 1..Len(DeploymentIds), o \in OutputMaps :
           RemoteSucceeds(sn, n, o)
    \/ \E sn \in StackNames, n \in 1..Len(DeploymentIds), m \in Messages :
           RemoteFails(sn, n, m)
    \/ \E s \in 1..MaxClients : StatusPollReturns(s)
    \/ \E s \in 1..MaxClients : StatusOutputsReturn(s)
    \/ \E s \in 1..MaxClients, p \in Pairs : StatusRead(s, p)

SpecSecret == Init /\ [][NextSecret]_vars

\* both external ids of the last request pass the validation
BothValid ==
    /\ Len(answer.external_ids[1]) >= ExternalIdMinLength
    /\ Len(answer.external_ids[2]) >= ExternalIdMinLength

(***************************************************************************)
(* C22.  As stated: whatever the two external ids are, the two runs give   *)
(* the same response and hold the same job records.                        *)
(***************************************************************************)
C22_ExternalIdNeverInfluences ==
    ("left" \in DOMAIN answer) => answer.left = answer.right

(***************************************************************************)
(* C22, amended.  For two external ids that pass the validation of the     *)
(* request body (at least ExternalIdMinLength characters), the two runs    *)
(* give the same response and hold the same job records, and neither       *)
(* carries an external id.                                                 *)
(***************************************************************************)
C22_ValidExternalIdNeverInfluences ==
    ("left" \in DOMAIN answer /\ BothValid)
    => /\ answer.left = answer.right
       /\ "external_id" \notin DOMAIN answer.left.response
       /\ \A i \in 1..Len(answer.left.table) :
             "external_id" \notin DOMAIN answer.left.table[i]

\* an onboard request was accepted in both runs, with different external ids
C22_Witness ==
    /\ "left" \in DOMAIN answer
    /\ answer.operation = "onboard"
    /\ BothValid
    /\ answer.external_ids[1] # answer.external_ids[2]
    /\ answer.left.response.status_code = 200
    /\ Len(answer.right.table) = 1

(***************************************************************************)
(* C23.  No step removes a row: every row of the table is still there      *)
(* after the step, at its place, with its id and its stack_name.           *)
(***************************************************************************)
C23_RowsAreNeverRemoved ==
    [][/\ Len(table') >= Len(table)
       /\ \A i \in 1..Len(table) :
             /\ table'[i].id = table[i].id
             /\ table'[i].stack_name = table[i].stack_name]_vars

\* the row of a job that failed is still there: a later onboard request for
\* it was refused, and a status request after that returns it
C23_Witness ==
    /\ Len(table) = 1
    /\ table[1].status = FAILED
    /\ \E r \in 1..MaxSubmits : submits[r].pc = "done" /\ submits[r].existing = FAILED
    /\ answer.response.status_code = 200
    /\ answer.response.id = table[1].id
    /\ answer.response.status = FAILED

\* the edges of the status of a row
StatusEdges ==
    { <<PENDING, IN_PROGRESS>>, <<IN_PROGRESS, SUCCEEDED>>, <<IN_PROGRESS, FAILED>> }

CallOrder == <<"scheduled", "create_stack", "configure", "trigger", "finished">>
call_index(pc) == CHOOSE n \in 1..Len(CallOrder) : CallOrder[n] = pc
\* the deployments the engine has been asked to run for a task's stack
triggered(r, i) == r[task_stack_name(i)].deployments

(***************************************************************************)
(* C25.  A background task sends create_stack, then                        *)
(* configure_deployment_settings, then trigger_deployment, each once: it   *)
(* never goes back to a call it has sent, it sends trigger_deployment only *)
(* in the step in which configure_deployment_settings returned, without a  *)
(* failure recorded, and the one deployment it starts is an update.        *)
(***************************************************************************)
C25_RemoteStepsInOrderOnce ==
    [][\A i \in 1..Len(tasks) :
          LET before == call_index(tasks[i].pc)
              after == call_index(tasks'[i].pc)
          IN  /\ \/ after = before
                 \/ after = before + 1
                 \/ tasks[i].pc = "configure" /\ tasks'[i].pc = "finished"
              /\ (tasks'[i].pc = "trigger" /\ tasks[i].pc # "trigger")
                 => /\ tasks[i].pc = "configure"
                    /\ table' = table
                    /\ task_row(table, i).status = IN_PROGRESS
              /\ Len(triggered(remote', i)) # Len(triggered(remote, i))
                 => /\ tasks[i].pc = "trigger" /\ tasks'[i].pc = "finished"
                    /\ Len(triggered(remote', i)) = 1
                    /\ triggered(remote', i)[1].operation = "update"]_vars

\* the task has finished after its trigger: one update deployment runs in
\* the engine and the row carries its id
C25_Witness ==
    \E i \in 1..Len(tasks) :
        /\ tasks[i].pc = "finished"
        /\ Len(triggered(remote, i)) = 1
        /\ triggered(remote, i)[1].operation = "update"
        /\ triggered(remote, i)[1].status = "running"
        /\ task_row(table, i).status = IN_PROGRESS
        /\ task_row(table, i).pulumi_deployment_id = DeploymentIds[1]

\* the step answers a status request without having sent a remote call
AnsweredFromStore ==
    /\ answer' # NoAnswer
    /\ "status_code" \in DOMAIN answer'.response
    /\ polls' = polls
\* the positions of a status request, in the order of its awaits
PollOrder == <<"idle", "get_deployment_status", "get_stack_outputs">>
poll_index(pc) == CHOOSE n \in 1..Len(PollOrder) : PollOrder[n] = pc

(***************************************************************************)
(* C26.  A status request sends get_deployment_status only when the row it *)
(* read is IN_PROGRESS and has a pulumi_deployment_id, and sends it once:  *)
(* from there it goes on to the outputs or answers.  For a row in any      *)
(* other state it answers from the row alone, with no remote call and no   *)
(* write.  No step of a status request adds a background task.             *)
(***************************************************************************)
C26_PollOnlyInProgressWithIdOnce ==
    [][/\ \A s \in 1..MaxPolls :
             /\ (polls[s].pc = "idle" /\ polls'[s].pc # "idle")
                => /\ polls'[s].pc = "get_deployment_status"
                   /\ polls'[s].deployment =
                         get_deployment(table, polls'[s].customer_name,
                                        polls'[s].environment)
                   /\ polls'[s].deployment.status = IN_PROGRESS
                   /\ polls'[s].deployment.pulumi_deployment_id \notin {None, ""}
             /\ (polls[s].pc # "idle" /\ polls'[s].pc # polls[s].pc)
                => /\ poll_index(polls'[s].pc) \in {1, poll_index(polls[s].pc) + 1}
                   /\ tasks' = tasks
       /\ AnsweredFromStore
          => /\ answer'.remote_calls = 0
             /\ table' = table /\ now' = now
             /\ tasks' = tasks /\ remote' = remote
       /\ (answer' # NoAnswer /\ "remote_calls" \in DOMAIN answer')
          => /\ answer'.remote_calls <= 2
             /\ tasks' = tasks
       /\ \A status \in DeploymentStatus, id \in PassedIds :
             (status # IN_PROGRESS \/ id = None)
             => ~must_poll([status |-> status, pulumi_deployment_id |-> id])]_vars

\* a status request for a job whose trigger returned no id has been answered
\* from the row: IN_PROGRESS, no remote call, nothing written
C26_Witness ==
    /\ answer.remote_calls = 0 /\ ~answer.wrote
    /\ answer.response.status_code = 200
    /\ answer.response.status = IN_PROGRESS
    /\ answer.response.pulumi_deployment_id = None
    /\ \E i \in 1..Len(tasks) : tasks[i].pc = "finished"

\* status request s writes the table in this step
PollWrites(s) ==
    /\ polls[s].pc # "idle" /\ polls'[s].pc = "idle"
    /\ answer'.wrote

TaskSteps ==
    \E i \in 1..Len(tasks) :
        \/ RunStart(i)
        \/ \E raises \in BOOLEAN : RunCreateStackReturns(i, raises)
        \/ RunConfigureReturns(i)
        \/ \E text \in ExcTexts : RunConfigureRaises(i, text)
        \/ \E has_id \in BOOLEAN : RunTriggerReturns(i, has_id)
        \/ \E text \in ExcTexts : RunTriggerRaises(i, text)
RemoteSteps ==
    \E sn \in StackNames, n \in 1..Len(DeploymentIds) :
        \/ \E o \in OutputMaps : RemoteSucceeds(sn, n, o)
        \/ \E m \in Messages : RemoteFails(sn, n, m)
StatusArrives(p) == \E s \in 1..MaxClients : StatusRead(s, p)
PollReturns == \E s \in 1..MaxClients : StatusPollReturns(s)
OutputsReturn == \E s \in 1..MaxClients : StatusOutputsReturn(s)

SpecFair ==
    /\ Init /\ [][NextClients]_vars
    /\ WF_vars(TaskSteps)
    /\ WF_vars(RemoteSteps)
    /\ \A p \in Pairs : SF_vars(StatusArrives(p))
    /\ SF_vars(PollReturns)
    /\ SF_vars(OutputsReturn)

\* the i-th background task exists
Scheduled(i) == Len(tasks) >= i
\* it has finished and left its row FAILED or with the id of a deployment
Settled(i) ==
    /\ Len(tasks) >= i
    /\ tasks[i].pc = "finished"
    /\ \/ task_row(table, i).status = FAILED
       \/ task_row(table, i).pulumi_deployment_id # None

(***************************************************************************)
(* C28.  Under fairness every background task finishes and leaves its row  *)
(* FAILED, or with a pulumi_deployment_id: no row stays PENDING, or        *)
(* IN_PROGRESS without an id, for ever.                                    *)
(***************************************************************************)
C28_TaskSettlesTheJob ==
    \A i \in 1..MaxClients : Scheduled(i) ~> Settled(i)

\* a row that is IN_PROGRESS and has the id of its deployment
Triggered(sn) ==
    /\ first(table, sn) # NoRecord
    /\ first(table, sn).status = IN_PROGRESS
    /\ first(table, sn).pulumi_deployment_id # None
Reconciled(sn) ==
    /\ first(table, sn) # NoRecord
    /\ first(table, sn).status \in {SUCCEEDED, FAILED}

(***************************************************************************)
(* C29.  Under fairness a row that is IN_PROGRESS with the id of its       *)
(* deployment becomes SUCCEEDED or FAILED: polls that raise, or that find  *)
(* the deployment running, leave the row as it was, and a later status     *)
(* request reconciles it.                                                  *)
(***************************************************************************)
C29_ReconciliationEventuallySucceeds ==
    \A sn \in StackNames : Triggered(sn) ~> Reconciled(sn)

\* a status request has just recorded the failure of the deployment, with
\* one remote call, on a row whose task had left it IN_PROGRESS with its id
C29_Witness ==
    /\ answer.wrote /\ ~answer.stale
    /\ answer.remote_calls = 1
    /\ \E sn \in StackNames :
          /\ Reconciled(sn)
          /\ first(table, sn).status = FAILED
          /\ first(table, sn).pulumi_deployment_id # None
          /\ first(table, sn).updated_at = now

\* the step in which the create_stack call of task i ends
CreateStackEnds(i) ==
    /\ i <= Len(tasks)
    /\ tasks[i].pc = "create_stack"
    /\ tasks'[i].pc # "create_stack"

(***************************************************************************)
(* C30.  create_stack is idempotent for the job: whether it returns or     *)
(* raises, because the stack exists already, the task writes nothing, so   *)
(* the row stays IN_PROGRESS, and configure_deployment_settings is sent;   *)
(* after a create_stack that raised, the task sends trigger_deployment     *)
(* when configure_deployment_settings returns, and fails the row only when *)
(* that call raises.                                                       *)
(***************************************************************************)
C30_ExistingStackIsNotAFailure ==
    [][\A i \in 1..MaxClients :
          /\ CreateStackEnds(i)
                => /\ tasks'[i].pc = "configure"
                   /\ table' = table
                   /\ task_row(table', i).status = IN_PROGRESS
          /\ (/\ i <= Len(tasks)
              /\ tasks[i].pc = "configure" /\ tasks[i].create_stack_raised
              /\ tasks'[i].pc # "configure")
                => \/ tasks'[i].pc = "trigger" /\ table' = table
                   \/ /\ tasks'[i].pc = "finished"
                      /\ task_row(table', i).status = FAILED]_vars

\* create_stack has raised, the row of the task is still IN_PROGRESS and
\* configure_deployment_settings has been sent
C30_Witness ==
    \E i \in 1..Len(tasks) :
        /\ tasks[i].create_stack_raised
        /\ tasks[i].pc = "configure"
        /\ task_row(table, i).status = IN_PROGRESS
        /\ task_row(table, i).error_message = None

\* the submits that were answered 409
Rejected == {r \in 1..MaxSubmits : submits[r].pc = "done" /\ submits[r].response.status_code = 409}
\* the table has a row of the pair itself
HasRowOf(customer_name, environment) ==
    \E i \in 1..Len(table) :
        table[i].customer_name = customer_name /\ table[i].environment = environment

(***************************************************************************)
(* C31.  The stack name identifies one (customer_name, environment) pair:  *)
(* a status request answered 200 carries the record of the pair it asked   *)
(* for, and an onboard request is answered 409 only when the table has a   *)
(* row of its own pair.                                                    *)
(***************************************************************************)
C31_KeyIdentifiesOnePair ==
    /\ (answer.response.status_code = 200)
          => /\ answer.response.customer_name = answer.customer_name
             /\ answer.response.environment = answer.environment
    /\ \A r \in Rejected : HasRowOf(submits[r].customer_name, submits[r].environment)

(***************************************************************************)
(* The configuration store  (src/api/config_storage.py) and the            *)
(* CustomerConfig model  (src/api/models.py:335-421).                      *)
(* An Optional value is a set: {} is None and {v} is the value v, so that  *)
(* a dict can hold None next to values of any type.  Of the fields of      *)
(* CustomerConfig the model keeps one of each kind: required strings, an   *)
(* Optional list, an enum and the two datetimes; vpc_cidr and eks_version  *)
(* are handled as aws_region is, node_group_config as availability_zones.  *)
(***************************************************************************)
\* customer ids as CustomerConfigCreate admits them: ^[a-z0-9-]+$, 3 to 50
ConfigIds == { <<"acme">>, <<"acme", DASH, "co">> }

AUTO == "EksMode.AUTO"
MANAGED == "EksMode.MANAGED"
EksMode == {AUTO, MANAGED}
\* EksMode.value and EksMode(value)
eks_mode_value(m) == IF m = AUTO THEN "auto" ELSE "managed"
eks_mode_of(v) == CHOOSE m \in EksMode : eks_mode_value(m) = v

\* datetimes are clock readings; their JSON form is a string
Times == 0..(MaxCalls + 1)
isoformat(n) == "2026-01-01T00:00:0" \o ToString(n) \o "Z"
fromisoformat(text) == CHOOSE n \in Times : isoformat(n) = text

Zones == <<"us-east-1a", "us-east-1b">>
ValidExternalId == <<1, 2, 3, 4, 5, 6, 7, 8, 9, 0>>
OtherRoleArn == "arn:aws:iam::210987654321:role/byoc"

\* the fields of CustomerConfig, in declaration order
ConfigFields ==
    <<"customer_id", "role_arn", "external_id", "aws_region",
      "availability_zones", "eks_mode", "created_at", "updated_at">>
\* the fields whose type is not Optional
RequiredFields == {"customer_id", "role_arn", "external_id", "aws_region",
                   "eks_mode", "created_at", "updated_at"}

\* CustomerConfig(...)
CustomerConfig(customer_id, role_arn, aws_region, availability_zones, eks_mode, created_at, updated_at) ==
    [customer_id |-> customer_id, role_arn |-> role_arn,
     external_id |-> ValidExternalId, aws_region |-> aws_region,
     availability_zones |-> availability_zones, eks_mode |-> eks_mode,
     created_at |-> created_at, updated_at |-> updated_at]

\* config.model_dump(): a dict of the field values
model_dump(config) ==
    [customer_id |-> {config.customer_id}, role_arn |-> {config.role_arn},
     external_id |-> {config.external_id}, aws_region |-> {config.aws_region},
     availability_zones |-> config.availability_zones,
     eks_mode |-> {config.eks_mode},
     created_at |-> {config.created_at}, updated_at |-> {config.updated_at}]

\* config.model_dump(mode="json"): the enum as its value, datetimes as text
model_dump_json(config) ==
    [model_dump(config) EXCEPT
        !.eks_mode = {eks_mode_value(config.eks_mode)},
        !.created_at = {isoformat(config.created_at)},
        !.updated_at = {isoformat(config.updated_at)}]

\* json.dumps(config_data, indent=2): the members in order, as text
config_json_dumps(data) ==
    [i \in 1..Len(ConfigFields) |-> <<ConfigFields[i], data[ConfigFields[i]]>>]

\* json.loads(text): the dict of the members
config_json_loads(text) ==
    [k \in {text[i][1] : i \in 1..Len(text)} |->
        text[CHOOSE i \in 1..Len(text) : text[i][1] = k][2]]

ValidationError == [raised |-> "ValidationError"]
Unwrap(optional) == CHOOSE v \in optional : TRUE

\* CustomerConfig.model_validate(data) for a dict of Python values: a field
\* that is not Optional rejects None
model_validate(data) ==
    IF \E f \in RequiredFields : data[f] = {}
    THEN ValidationError
    ELSE [customer_id |-> Unwrap(data.customer_id), role_arn |-> Unwrap(data.role_arn),
          external_id |-> Unwrap(data.external_id),
          aws_region |-> Unwrap(data.aws_region),
          availability_zones |-> data.availability_zones,
          eks_mode |-> Unwrap(data.eks_mode),
          created_at |-> Unwrap(data.created_at),
          updated_at |-> Unwrap(data.updated_at)]

\* CustomerConfig.model_validate(data) for a dict read from JSON: the enum
\* is built from its value and the datetimes are parsed
model_validate_loaded(data) ==
    IF \E f \in RequiredFields : data[f] = {}
    THEN ValidationError
    ELSE model_validate([data EXCEPT
             !.eks_mode = {eks_mode_of(Unwrap(data.eks_mode))},
             !.created_at = {fromisoformat(Unwrap(data.created_at))},
             !.updated_at = {fromisoformat(Unwrap(data.updated_at))}])

\* FileConfigStorage._get_config_path: base_path / f"{customer_id}.json"
BasePath == <<"config">>
get_config_path(customer_id) == BasePath \o <<"/">> \o customer_id \o <<".json">>

\* what get returns when there is no file
NoConfig == [customer_id |-> <<>>]

\* a save that leaves the file of a customer who has one
save_if_absent(f, customer_id, config) ==
    IF get_config_path(customer_id) \in DOMAIN f THEN f
    ELSE (get_config_path(customer_id) :> config_json_dumps(model_dump_json(config))) @@ f

\* FileConfigStorage.save: write_text creates the file or replaces its text
save(f, customer_id, config) ==
    (get_config_path(customer_id) :> config_json_dumps(model_dump_json(config))) @@ f

\* FileConfigStorage.get
get(f, customer_id) ==
    IF get_config_path(customer_id) \notin DOMAIN f
    THEN NoConfig
    ELSE model_validate_loaded(config_json_loads(f[get_config_path(customer_id)]))

\* FileConfigStorage.delete: the result and the directory it leaves
delete(f, customer_id) ==
    IF get_config_path(customer_id) \notin DOMAIN f
    THEN [result |-> FALSE, files |-> f]
    ELSE [result |-> TRUE,
          files |-> [q \in DOMAIN f \ {get_config_path(customer_id)} |-> f[q]]]

\* FileConfigStorage.exists
exists(f, customer_id) == get_config_path(customer_id) \in DOMAIN f

\* the fields of CustomerConfigUpdate the model keeps; each is Optional
\* with default None
UpdateFields == {"role_arn", "availability_zones", "eks_mode"}

\* CustomerConfigUpdate(**body): fields_set are the fields the body gives,
\* with a value or with null; the others hold their default
CustomerConfigUpdate(fields_set, role_arn, availability_zones, eks_mode) ==
    [fields_set |-> fields_set,
     role_arn |-> IF "role_arn" \in fields_set THEN role_arn ELSE {},
     availability_zones |-> IF "availability_zones" \in fields_set
                              THEN availability_zones ELSE {},
     eks_mode |-> IF "eks_mode" \in fields_set THEN eks_mode ELSE {}]

\* CustomerConfig.apply_update at time clock
apply_update(config, update, clock) ==
    LET update_data == [f \in update.fields_set |-> update[f]]
        current_data == model_dump(config)
        updated == [f \in DOMAIN current_data |->
                       IF f \in DOMAIN update_data THEN update_data[f]
                       ELSE current_data[f]]
    IN  model_validate([updated EXCEPT !.updated_at = {clock}])

\* the configurations and the updates the operations are tried with
ConfigsOf(customer_id) ==
    { CustomerConfig(customer_id, RoleArn, Regions[1], z, m, 1, 1) :
        z \in {{}, {Zones}}, m \in EksMode }
Updates ==
    { CustomerConfigUpdate(fields_set, r, z, m) :
        fields_set \in SUBSET UpdateFields, r \in {{}, {OtherRoleArn}},
        z \in {{}, {<<"eu-west-1a">>}}, m \in {{}, {AUTO}} }

ConfigSave(customer_id, config) ==
    /\ files' = save(files, customer_id, config)
    /\ answer' = [operation |-> "save", customer_id |-> customer_id, config |-> config]
    /\ UNCHANGED <<table, now, submits, tasks, polls, remote>>

ConfigGet(customer_id) ==
    /\ answer' = [operation |-> "get", customer_id |-> customer_id,
                  result |-> get(files, customer_id)]
    /\ UNCHANGED <<table, now, submits, tasks, polls, remote, files>>

ConfigDelete(customer_id) ==
    /\ files' = delete(files, customer_id).files
    /\ answer' = [operation |-> "delete", customer_id |-> customer_id,
                  result |-> delete(files, customer_id).result]
    /\ UNCHANGED <<table, now, submits, tasks, polls, remote>>

ConfigExists(customer_id) ==
    /\ answer' = [operation |-> "exists", customer_id |-> customer_id,
                  result |-> exists(files, customer_id)]
    /\ UNCHANGED <<table, now, submits, tasks, polls, remote, files>>

\* apply_update on a stored configuration; the clock is read once
ConfigApplyUpdate(customer_id, update) ==
    /\ now < MaxCalls
    /\ exists(files, customer_id)
    /\ now' = now + 1
    /\ answer' = [operation |-> "apply_update", customer_id |-> customer_id,
                  config |-> get(files, customer_id), update |-> update,
                  clock |-> now + 2,
                  result |-> apply_update(get(files, customer_id), update, now + 2)]
    /\ UNCHANGED <<table, submits, tasks, polls, remote, files>>

NextConfig ==
    \/ \E customer_id \in ConfigIds :
          \E config \in ConfigsOf(customer_id) : ConfigSave(customer_id, config)
    \/ \E customer_id \in ConfigIds : ConfigGet(customer_id)
    \/ \E customer_id \in ConfigIds : ConfigDelete(customer_id)
    \/ \E customer_id \in ConfigIds : ConfigExists(customer_id)
    \/ \E customer_id \in ConfigIds, update \in Updates :
          ConfigApplyUpdate(customer_id, update)

\* the configuration store and model on their own
SpecConfig == Init /\ [][NextConfig]_vars

\* the operation of the step just taken
Did(operation) == "operation" \in DOMAIN answer' /\ answer'.operation = operation
\* the other customers have in g what they had in f
OthersKept(f, g, customer_id) ==
    \A other \in ConfigIds \ {customer_id} :
        get(g, other) = get(f, other) /\ exists(g, other) = exists(f, other)

(***************************************************************************)
(* C32.  The configuration store round trip: get after save returns the    *)
(* saved configuration, whether or not the customer had one; delete        *)
(* returns true exactly when the customer had a file, and afterwards get   *)
(* returns none and exists false; exists is true exactly when get returns  *)
(* a configuration; save and delete leave the other customers as they      *)
(* were, and get and exists change nothing.                                *)
(***************************************************************************)
C32_ConfigRoundTrip ==
    [][/\ Did("save") =>
            /\ get(files', answer'.customer_id) = answer'.config
            /\ exists(files', answer'.customer_id)
            /\ OthersKept(files, files', answer'.customer_id)
       /\ Did("delete") =>
            /\ answer'.result = exists(files, answer'.customer_id)
            /\ get(files', answer'.customer_id) = NoConfig
            /\ ~exists(files', answer'.customer_id)
            /\ OthersKept(files, files', answer'.customer_id)
       /\ Did("get") =>
            /\ files' = files
            /\ answer'.result = get(files, answer'.customer_id)
       /\ Did("exists") =>
            /\ files' = files
            /\ answer'.result = (get(files, answer'.customer_id) # NoConfig)
       /\ \A customer_id \in ConfigIds :
            exists(files', customer_id) <=> get(files', customer_id) # NoConfig]_vars

\* a save has replaced the configuration of a customer while another
\* customer has a different one
C32_Witness ==
    /\ "operation" \in DOMAIN answer /\ answer.operation = "save"
    /\ get(files, answer.customer_id) = answer.config
    /\ answer.config.eks_mode = AUTO
    /\ \E other \in ConfigIds \ {answer.customer_id} :
          /\ exists(files, other)
          /\ get(files, other).eks_mode = MANAGED
          /\ get(files, other).customer_id = other

\* apply_update has just been applied
Applied == "operation" \in DOMAIN answer /\ answer.operation = "apply_update"
\* the result is a configuration that differs from config in the fields of
\* fields_set and in updated_at at most, and has the values the update gives
OnlyProvidedChanged(config, update, clock, result) ==
    /\ result.updated_at = clock
    /\ result.customer_id = config.customer_id
    /\ result.created_at = config.created_at
    /\ result.external_id = config.external_id
    /\ result.aws_region = config.aws_region
    /\ \A f \in UpdateFields \ update.fields_set : result[f] = config[f]
    /\ \A f \in update.fields_set : model_dump(result)[f] = update[f]

(***************************************************************************)
(* C33.  apply_update always returns a configuration, with updated_at      *)
(* refreshed, that differs from the one it was applied to only in the      *)
(* fields the update provides: customer_id, created_at and every field not *)
(* provided are unchanged, and an update that provides no field changes    *)
(* updated_at alone.                                                       *)
(***************************************************************************)
C33_ApplyUpdateChangesOnlyProvidedFields ==
    Applied =>
        /\ "raised" \notin DOMAIN answer.result
        /\ OnlyProvidedChanged(answer.config, answer.update, answer.clock, answer.result)

====
